---- MODULE Spec2Model ----
(***************************************************************************)
(* Citation generator of the AI research platform front end:               *)
(*   - CitationGenerator page (tabs mounting QuickCitation / CitationForm) *)
(*   - QuickCitation  (free-text form)                                     *)
(*   - CitationForm   (manual-entry form)                                  *)
(*   - citationApi    (axios client: generateCitation, quickGenerate)      *)
(* Texts typed by the user are sequences of one-character strings, so that *)
(* trim, truthiness and parseInt are computed, not assumed.  JavaScript    *)
(* values are records tagged with their typeof in field t.                 *)
(***************************************************************************)
EXTENDS Integers, Sequences, FiniteSets, TLC

VARIABLES activeTab, quick, form, wire, requests, running, preview,
          upload, research, fetches

vars == <<activeTab, quick, form, wire, requests, running, preview,
          upload, research, fetches>>

(***************************************************************************)
(* Bounds of the model.                                                    *)
(***************************************************************************)
\* longest text typed into the quick text box and the title field
MaxTextLen == 1
\* most author rows the manual form is grown to
MaxAuthors == 2
\* most filled-in inputs of the manual form, when the form is explored alone
MaxFilled == 4
\* most filled-in inputs of the manual form, when the whole page is explored
PageMaxFilled == 2
\* most HTTP requests outstanding at once (live and orphaned together)
MaxInFlight == 2
\* most entries of the warnings list of a citation
MaxWarnings == 2
\* most files downloaded from the preview
MaxDownloads == 2
\* most clicks on the copy button of one preview
MaxCopies == 2
\* most documents of DocumentUpload, listed and being uploaded together
MaxDocs == 2
\* most messages of a document chat, the greeting included
MaxMessages == 5

\* searches started on the research page
MaxSearches == 3

(***************************************************************************)
(* JavaScript values.                                                      *)
(***************************************************************************)
JsNull == [t |-> "null"]

JsUndefined == [t |-> "undefined"]

\* a string of the program or of the server (message texts)
JsStr(s) == [t |-> "string", s |-> s]

\* a string typed by the user, kept as its characters
JsText(cs) == [t |-> "string", chars |-> cs]

JsNum(n) == [t |-> "number", n |-> n]

JsNaN == [t |-> "number", nan |-> TRUE]

\* a JSON array or object that is not a Citation (e.g. FastAPI's 422 detail list)
JsArray == [t |-> "object", array |-> TRUE]

\* an array of strings
JsList(items) == [t |-> "object", items |-> items]

\* ToBoolean: null, undefined, NaN, 0 and the empty string are falsy
Truthy(v) ==
  CASE v.t = "null" -> FALSE
    [] v.t = "undefined" -> FALSE
    [] v.t = "string" -> IF "chars" \in DOMAIN v THEN v.chars # <<>> ELSE v.s # ""
    [] v.t = "number" -> IF "nan" \in DOMAIN v THEN FALSE ELSE v.n # 0
    [] OTHER -> TRUE

\* a || b
JsOr(a, b) == IF Truthy(a) THEN a ELSE b

(***************************************************************************)
(* Texts: sequences of characters.                                         *)
(***************************************************************************)
Chars == {" ", "a"}

RECURSIVE TextsOfLen(_)
TextsOfLen(n) ==
  IF n = 0 THEN {<<>>}
  ELSE {Append(s, c) : s \in TextsOfLen(n - 1), c \in Chars}

Texts(n) == UNION {TextsOfLen(k) : k \in 0..n}

IsSpace(c) == c = " "

RECURSIVE TrimStart(_)
TrimStart(s) ==
  IF s = <<>> THEN <<>>
  ELSE IF IsSpace(Head(s)) THEN TrimStart(Tail(s)) ELSE s

RECURSIVE TrimEnd(_)
TrimEnd(s) ==
  IF s = <<>> THEN <<>>
  ELSE IF IsSpace(s[Len(s)]) THEN TrimEnd(SubSeq(s, 1, Len(s) - 1)) ELSE s

\* String.prototype.trim
Trim(s) == TrimEnd(TrimStart(s))

(***************************************************************************)
(* The remote side and axios.                                              *)
(***************************************************************************)
CitationA ==
  [t |-> "object", citation |-> "Vaswani, A. (2017). Attention is all you need.",
   in_text_citation |-> "(Vaswani, 2017)", style |-> "apa_7", format |-> "text",
   warnings |-> JsList(<<>>)]

CitationB ==
  [t |-> "object", citation |-> "Vaswani, Ashish. Attention Is All You Need. 2017.",
   in_text_citation |-> "(Vaswani)", style |-> "mla_9", format |-> "text",
   warnings |-> JsList(<<"Missing DOI", "Missing publisher">>)]

\* a 2xx JSON body that is an object without the Citation fields
EmptyObject == [t |-> "object", empty |-> TRUE]

\* what a 2xx response can carry
SuccessBodies == {CitationA, CitationB, EmptyObject, JsNull}

ErrorStatuses == {422}

\* the detail field of an error body: absent, a text, an empty text, a list
DetailValues ==
  {JsUndefined, JsStr("year must be a 4-digit number"), JsStr("Network Error"),
   JsStr(""), JsArray}

\* the message field of an error body
MessageValues == {JsUndefined, JsStr("Service unavailable")}

\* every way one HTTP exchange can end
Outcomes ==
  {[kind |-> "response", status |-> 200, data |-> d] : d \in SuccessBodies}
  \cup {[kind |-> "response", status |-> st, data |-> [detail |-> dt, message |-> m]] :
          st \in ErrorStatuses, dt \in DetailValues, m \in MessageValues}
  \cup {[kind |-> "no_response"]}

IsSuccess(o) == o.kind = "response" /\ o.status \in 200..299

\* AxiosError.message
AxiosMessage(o) ==
  IF o.kind = "no_response" THEN "Network Error"
  ELSE "Request failed with status code 422"

\* axiosError.response?.data?.detail
ResponseDetail(o) == IF o.kind = "no_response" THEN JsUndefined ELSE o.data.detail

GenerateFallback == "Failed to generate citation"

\* citationApi.generateCitation / quickGenerate after the exchange ended:
\* the resolved value, or the value thrown
CitationApiSettle(o) ==
  IF IsSuccess(o)
  THEN [ok |-> TRUE, value |-> o.data]
  ELSE [ok |-> FALSE,
        value |-> JsOr(JsOr(ResponseDetail(o), JsStr(AxiosMessage(o))),
                       JsStr(GenerateFallback))]

(***************************************************************************)
(* Component state.                                                        *)
(***************************************************************************)
\* the styles the user picks, among the six of the menu
QuickStyles == {"apa_7", "mla_9"}

QuickInit ==
  [text |-> <<>>, style |-> "apa_7", loading |-> FALSE,
   citation |-> JsNull, error |-> JsNull]

\* no async continuation of handleGenerate is executing
Idle == [api |-> "none", live |-> FALSE]

\* nothing is being written to the network
NoRequest == [api |-> "none"]

\* the page waits for the user: no handler or transmission is in progress
Quiet == running = Idle /\ wire = NoRequest

\* requests of the mounted instance of a form
LiveRequests(api) == {i \in 1..Len(requests) : requests[i].api = api /\ requests[i].live}

RemoveAt(s, i) == SubSeq(s, 1, i - 1) \o SubSeq(s, i + 1, Len(s))

CanSend == Len(requests) < MaxInFlight

(***************************************************************************)
(* QuickCitation.                                                          *)
(***************************************************************************)
EnterTextMessage == "Please enter some text"

\* QuickSetText, were the onChange handler also to reset the error
QuickSetText_ClearsError ==
  /\ activeTab = 0 /\ Quiet
  /\ \E v \in Texts(MaxTextLen) :
       /\ v # quick.text
       /\ quick' = [quick EXCEPT !.text = v, !.error = JsNull]
  /\ UNCHANGED <<activeTab, form, wire, requests, running, preview,
               upload, research, fetches>>

\* onChange of the text box
QuickSetText ==
  /\ activeTab = 0 /\ Quiet
  /\ \E v \in Texts(MaxTextLen) :
       /\ v # quick.text
       /\ quick' = [quick EXCEPT !.text = v]
  /\ UNCHANGED <<activeTab, form, wire, requests, running, preview,
               upload, research, fetches>>

QuickHandleStyleChange ==
  /\ activeTab = 0 /\ Quiet
  /\ \E s \in QuickStyles :
       /\ s # quick.style
       /\ quick' = [quick EXCEPT !.style = s]
  /\ UNCHANGED <<activeTab, form, wire, requests, running, preview,
               upload, research, fetches>>

\* QuickGenerateDisabled, were the button to ignore loading
QuickGenerateDisabled_IgnoresLoading == Trim(quick.text) = <<>>

\* disabled attribute of the Generate button
QuickGenerateDisabled == quick.loading \/ Trim(quick.text) = <<>>

\* QuickHandleGenerate, were the text tested without trim()
QuickHandleGenerate_NoTrim ==
  /\ activeTab = 0 /\ Quiet
  /\ IF quick.text = <<>>
     THEN /\ quick' = [quick EXCEPT !.error = JsStr(EnterTextMessage)]
          /\ UNCHANGED wire
     ELSE /\ CanSend
          /\ quick' = [quick EXCEPT !.loading = TRUE, !.error = JsNull]
          /\ wire' = [api |-> "quickGenerate",
                      body |-> [text |-> quick.text, style |-> quick.style]]
  /\ UNCHANGED <<activeTab, form, requests, running, preview,
               upload, research, fetches>>

\* handleGenerate up to its await
QuickHandleGenerate ==
  /\ activeTab = 0 /\ Quiet
  /\ IF Trim(quick.text) = <<>>
     THEN /\ quick' = [quick EXCEPT !.error = JsStr(EnterTextMessage)]
          /\ UNCHANGED wire
     ELSE /\ CanSend
          /\ quick' = [quick EXCEPT !.loading = TRUE, !.error = JsNull]
          /\ wire' = [api |-> "quickGenerate",
                      body |-> [text |-> quick.text, style |-> quick.style]]
  /\ UNCHANGED <<activeTab, form, requests, running, preview,
               upload, research, fetches>>

\* a click on the Generate button
QuickClickGenerate == ~QuickGenerateDisabled /\ QuickHandleGenerate

\* typeof err === 'string' ? err : 'Failed to generate citation'
QuickCatch(err) == IF err.t = "string" THEN err ELSE JsStr(GenerateFallback)
\* QuickSettle, were the catch block also to drop the previous citation
QuickSettle_DropsCitation(r, o) ==
  LET res == CitationApiSettle(o) IN
  IF res.ok
  THEN quick' = [quick EXCEPT !.citation = res.value]
  ELSE quick' = [quick EXCEPT !.error = QuickCatch(res.value), !.citation = JsNull]

\* handleGenerate after its await: try / catch
QuickSettle(r, o) ==
  LET res == CitationApiSettle(o) IN
  IF res.ok
  THEN quick' = [quick EXCEPT !.citation = res.value]
  ELSE quick' = [quick EXCEPT !.error = QuickCatch(res.value)]

\* what the Alert of the quick form shows: {error && <Alert>}
QuickErrorShown == IF Truthy(quick.error) THEN quick.error ELSE JsNull
\* QuickFinally, were loading reset in the try block only
QuickFinally_AfterSuccessOnly ==
  quick' = [quick EXCEPT !.loading = IF IsSuccess(running.outcome) THEN FALSE ELSE @]

\* handleGenerate: finally
QuickFinally == quick' = [quick EXCEPT !.loading = FALSE]

(***************************************************************************)
(* CitationForm.                                                           *)
(***************************************************************************)
\* the source types the user picks, among the five of the menu
FormSourceTypes == {"journal_article", "book", "website"}

\* the styles the user picks, among the five of the menu
FormStyles == {"apa_7", "mla_9"}

\* what the user types into a name or an optional field
FieldInputs == {<<>>, <<"a">>}

\* what the user types into the year field (type="number")
YearInputs == {<<>>, <<"2">>, <<".", "5">>}

EmptyAuthor == [first_name |-> <<>>, last_name |-> <<>>, middle_name |-> <<>>]

FormInit ==
  [sourceType |-> "journal_article", style |-> "apa_7", citation |-> JsNull,
   loading |-> FALSE, title |-> <<>>, authors |-> <<EmptyAuthor>>, year |-> <<>>,
   publication |-> <<>>, volume |-> <<>>, issue |-> <<>>, pages |-> <<>>,
   doi |-> <<>>, url |-> <<>>, publisher |-> <<>>]

BoolToNat(b) == IF b THEN 1 ELSE 0

\* how many inputs of the manual form differ from their initial value
Filled(f) ==
  LET names == {<<i, n>> : i \in 1..Len(f.authors),
                          n \in {"first_name", "middle_name", "last_name"}}
      texts == {"title", "year", "publication", "volume", "issue", "pages",
                "doi", "url", "publisher"}
  IN  Cardinality({x \in names : f.authors[x[1]][x[2]] # <<>>})
      + (Len(f.authors) - 1)
      + Cardinality({n \in texts : f[n] # <<>>})
      + BoolToNat(f.sourceType # "journal_article")
      + BoolToNat(f.style # "apa_7")

\* an input event of the manual form that changes its state to next;
\* b bounds the number of filled-in inputs
FormEdit(next, b) ==
  /\ activeTab = 1 /\ Quiet
  /\ next # form
  /\ Filled(next) <= b
  /\ form' = next
  /\ UNCHANGED <<activeTab, quick, wire, requests, running, preview,
               upload, research, fetches>>

addAuthor(b) ==
  /\ Len(form.authors) < MaxAuthors
  /\ FormEdit([form EXCEPT !.authors = Append(@, EmptyAuthor)], b)

removeAuthor(b) ==
  \E index \in 1..Len(form.authors) :
    /\ Len(form.authors) # 1
    /\ FormEdit([form EXCEPT !.authors = RemoveAt(@, index)], b)

updateAuthor(b) ==
  \E index \in 1..Len(form.authors), field \in {"first_name", "middle_name", "last_name"},
     value \in FieldInputs :
    FormEdit([form EXCEPT !.authors[index][field] = value], b)

setTitle(b) == \E v \in Texts(MaxTextLen) : FormEdit([form EXCEPT !.title = v], b)

setYear(b) == \E v \in YearInputs : FormEdit([form EXCEPT !.year = v], b)

\* onChange of the single Publication/Publisher input
PublicationOnChange(b) ==
  \E v \in FieldInputs :
    IF form.sourceType = "book"
    THEN FormEdit([form EXCEPT !.publisher = v], b)
    ELSE FormEdit([form EXCEPT !.publication = v], b)

\* the Volume, Issue and Pages inputs are rendered for journal articles only
VolumeIssuePagesOnChange(b) ==
  /\ form.sourceType = "journal_article"
  /\ \E field \in {"volume", "issue", "pages"}, v \in FieldInputs :
       FormEdit([form EXCEPT ![field] = v], b)

DoiUrlOnChange(b) ==
  \E field \in {"doi", "url"}, v \in FieldInputs : FormEdit([form EXCEPT ![field] = v], b)

handleSourceTypeChange(b) ==
  \E v \in FormSourceTypes : FormEdit([form EXCEPT !.sourceType = v], b)

FormHandleStyleChange(b) == \E v \in FormStyles : FormEdit([form EXCEPT !.style = v], b)

DigitChars == {"0", "1", "2", "3", "4", "5", "6", "7", "8", "9"}

DigitValue(c) ==
  CASE c = "0" -> 0 [] c = "1" -> 1 [] c = "2" -> 2 [] c = "3" -> 3 [] c = "4" -> 4
    [] c = "5" -> 5 [] c = "6" -> 6 [] c = "7" -> 7 [] c = "8" -> 8 [] c = "9" -> 9

RECURSIVE ParseDigits(_, _, _)
\* the value of the longest prefix of digits of s; NaN when there is none
ParseDigits(s, acc, seen) ==
  IF s # <<>> /\ Head(s) \in DigitChars
  THEN ParseDigits(Tail(s), acc * 10 + DigitValue(Head(s)), TRUE)
  ELSE IF seen THEN JsNum(acc) ELSE JsNaN

\* parseInt(s) in radix 10
ParseInt(s) ==
  LET t == TrimStart(s) IN
  IF t # <<>> /\ Head(t) = "-"
  THEN LET r == ParseDigits(Tail(t), 0, FALSE) IN
       IF "nan" \in DOMAIN r THEN r ELSE JsNum(0 - r.n)
  ELSE IF t # <<>> /\ Head(t) = "+" THEN ParseDigits(Tail(t), 0, FALSE)
  ELSE ParseDigits(t, 0, FALSE)

\* AuthorComplete, were the filter to test the last name only
AuthorComplete_LastNameOnly(a) == Truthy(JsText(a.last_name))

\* a => a.first_name && a.last_name
AuthorComplete(a) == Truthy(JsText(a.first_name)) /\ Truthy(JsText(a.last_name))

RECURSIVE FilterAuthors(_)
\* authors.filter(a => a.first_name && a.last_name)
FilterAuthors(as) ==
  IF as = <<>> THEN <<>>
  ELSE IF AuthorComplete(Head(as))
       THEN <<Head(as)>> \o FilterAuthors(Tail(as))
       ELSE FilterAuthors(Tail(as))
\* x || null, were the value sent as typed
OrNull_AsTyped(cs) == JsText(cs)

\* value || null
OrNull(s) == JsOr(JsText(s), JsNull)

\* the SourceMetadata built by handleGenerate
BuildMetadata(f) ==
  [source_type |-> f.sourceType,
   title |-> f.title,
   authors |-> FilterAuthors(f.authors),
   year |-> IF Truthy(JsText(f.year)) THEN ParseInt(f.year) ELSE JsNull,
   publication |-> OrNull(f.publication),
   volume |-> OrNull(f.volume),
   issue |-> OrNull(f.issue),
   pages |-> OrNull(f.pages),
   doi |-> OrNull(f.doi),
   url |-> OrNull(f.url),
   publisher |-> OrNull(f.publisher)]

\* disabled attribute of the Generate button
FormGenerateDisabled ==
  \/ form.loading
  \/ ~Truthy(JsText(form.title))
  \/ \A i \in 1..Len(form.authors) : ~Truthy(JsText(form.authors[i].last_name))

\* handleGenerate up to its await
FormHandleGenerate ==
  /\ activeTab = 1 /\ Quiet
  /\ CanSend
  /\ form' = [form EXCEPT !.loading = TRUE]
  /\ wire' = [api |-> "generateCitation",
              body |-> [metadata |-> BuildMetadata(form), style |-> form.style,
                        format |-> "text"]]
  /\ UNCHANGED <<activeTab, quick, requests, running, preview,
               upload, research, fetches>>

\* a click on the Generate button
FormClickGenerate == ~FormGenerateDisabled /\ FormHandleGenerate
\* FormSettle, were the incomplete authors dropped from the form as well
FormSettle_FiltersAuthors(r, o) ==
  LET res == CitationApiSettle(o) IN
  IF res.ok
  THEN form' = [form EXCEPT !.citation = res.value, !.authors = FilterAuthors(@)]
  ELSE form' = [form EXCEPT !.authors = FilterAuthors(@)]

\* handleGenerate after its await: try / catch (the catch only logs)
FormSettle(r, o) ==
  LET res == CitationApiSettle(o) IN
  IF res.ok
  THEN form' = [form EXCEPT !.citation = res.value]
  ELSE form' = form

\* the manual form keeps no error state and renders no error element
FormErrorShown == JsNull

\* handleGenerate: finally
FormFinally == form' = [form EXCEPT !.loading = FALSE]

(***************************************************************************)
(* CitationPreview and its CopyButton: shown by a form that has a citation. *)
(***************************************************************************)
\* the copy button as mounted, no file downloaded, nothing rendered yet
PreviewInit ==
  [copied |-> FALSE, copies |-> 0, timers |-> {}, writing |-> 0,
   result |-> "none", files |-> <<>>, block |-> JsUndefined]

\* the citation the mounted form hands to CitationPreview
Displayed ==
  CASE activeTab = 0 -> quick.citation
    [] activeTab = 1 -> form.citation
    [] OTHER -> JsNull

\* {citation && <CitationPreview citation={citation} />}: the preview renders
\* a value with the fields of a Citation
PreviewShown ==
  /\ Truthy(Displayed)
  /\ {"citation", "in_text_citation", "style", "format"} \subseteq DOMAIN Displayed

\* the preview is unmounted: the state of its CopyButton is lost and what that
\* instance has pending has no effect any more; downloaded files stay
PreviewUnmount(p) == [PreviewInit EXCEPT !.files = p.files]

\* a state update of a form keeps the preview while it is still shown
PreviewKept ==
  preview' = IF PreviewShown' THEN preview ELSE PreviewUnmount(preview)

(***************************************************************************)
(* DocumentUpload and ResearchPage: the state they are mounted with.       *)
(***************************************************************************)
\* DocumentUpload: its useState initialisers; handled is no state of the
\* component: the outcome of the request its handlers dealt with last
UploadInit ==
  [uploading |-> FALSE, uploadedDocs |-> <<>>, error |-> JsNull, success |-> JsNull,
   dragActive |-> FALSE, chatOpen |-> FALSE, currentDoc |-> JsNull,
   sessionId |-> JsNull, messages |-> <<>>, messageInput |-> <<>>,
   chatLoading |-> FALSE, handled |-> JsNull]

\* ResearchPage: its useState initialisers; searches and handled are no state
\* of the component: the number of searches started so far, and the search
\* and outcome that handleSearch dealt with last
ResearchInit ==
  [query |-> <<>>, maxResults |-> 5, loading |-> FALSE, result |-> JsNull,
   error |-> JsNull, searches |-> 0, handled |-> JsNull]

(***************************************************************************)
(* CitationGenerator: the tabs mount one form at a time.                   *)
(***************************************************************************)
Orphaned(rs) == [i \in 1..Len(rs) |-> [rs[i] EXCEPT !.live = FALSE]]

\* Tabs onChange: the form shown is unmounted and its state is lost
SwitchTab ==
  /\ Quiet
  /\ \E v \in 0..2 :
       /\ v # activeTab
       /\ activeTab' = v
  /\ quick' = QuickInit
  /\ form' = FormInit
  /\ requests' = Orphaned(requests)
  /\ preview' = PreviewUnmount(preview)
  /\ UNCHANGED <<wire, running, upload, research, fetches>>

(***************************************************************************)
(* The network answers; the awaiting handler resumes.                      *)
(***************************************************************************)
\* axios hands the request to the network, where it awaits its answer; the
\* handler of the mounted form awaits it (validateCitation is called by no form)
Transmit ==
  /\ wire # NoRequest
  /\ requests' = Append(requests,
       [api |-> wire.api, live |-> wire.api # "validateCitation"])
  /\ wire' = NoRequest
  /\ UNCHANGED <<activeTab, quick, form, running, preview,
               upload, research, fetches>>
\* Settle, were a failed request sent again by the client
Settle_Retries ==
  /\ Quiet
  /\ \E i \in 1..Len(requests), o \in Outcomes :
       LET r == requests[i] IN
       /\ r.live
       /\ requests' = RemoveAt(requests, i)
       /\ running' = [api |-> r.api, live |-> r.live, outcome |-> o]
       /\ IF r.api = "quickGenerate"
          THEN QuickSettle(r, o) /\ UNCHANGED form
          ELSE FormSettle(r, o) /\ UNCHANGED quick
       /\ wire' = IF IsSuccess(o) THEN wire ELSE [api |-> r.api, body |-> "again"]
  /\ UNCHANGED <<activeTab, upload, research, fetches>>
  /\ PreviewKept

\* the exchange of request i of the mounted form ends and its handler runs
\* its try / catch
Settle ==
  /\ Quiet
  /\ \E i \in 1..Len(requests), o \in Outcomes :
       LET r == requests[i] IN
       /\ r.live
       /\ requests' = RemoveAt(requests, i)
       /\ running' = [api |-> r.api, live |-> r.live, outcome |-> o]
       /\ IF r.api = "quickGenerate"
          THEN QuickSettle(r, o) /\ UNCHANGED form
          ELSE FormSettle(r, o) /\ UNCHANGED quick
  /\ UNCHANGED <<activeTab, wire, upload, research, fetches>>
  /\ PreviewKept
\* SettleUnmounted, were the late answer applied to the form now mounted
SettleUnmounted_Applies ==
  /\ Quiet
  /\ \E i \in 1..Len(requests) :
       /\ ~requests[i].live
       /\ requests' = RemoveAt(requests, i)
       /\ IF requests[i].api = "quickGenerate"
          THEN quick' = [quick EXCEPT !.citation = CitationA] /\ UNCHANGED form
          ELSE form' = [form EXCEPT !.citation = CitationA] /\ UNCHANGED quick
  /\ UNCHANGED <<activeTab, wire, running, preview, upload, research, fetches>>

\* the exchange of a request that no mounted form awaits ends: the state
\* updates of an unmounted handler (try / catch / finally) have no effect
SettleUnmounted ==
  /\ Quiet
  /\ \E i \in 1..Len(requests) :
       /\ ~requests[i].live
       /\ requests' = RemoveAt(requests, i)
  /\ UNCHANGED <<activeTab, quick, form, wire, running, preview,
               upload, research, fetches>>

\* the finally block of the resumed handler
Finally ==
  /\ running # Idle
  /\ running' = Idle
  /\ IF running.api = "quickGenerate"
     THEN QuickFinally /\ UNCHANGED form
     ELSE FormFinally /\ UNCHANGED quick
  /\ UNCHANGED <<activeTab, wire, requests, preview, upload, research, fetches>>

(***************************************************************************)
(* The page as the user drives it.                                         *)
(***************************************************************************)
Init ==
  /\ activeTab = 0
  /\ quick = QuickInit
  /\ form = FormInit
  /\ wire = NoRequest
  /\ requests = <<>>
  /\ running = Idle
  /\ preview = PreviewInit
  /\ upload = UploadInit
  /\ research = ResearchInit
  /\ fetches = <<>>

\* the input events of the manual form
FormInput(b) ==
  \/ addAuthor(b)
  \/ removeAuthor(b)
  \/ updateAuthor(b)
  \/ setTitle(b)
  \/ setYear(b)
  \/ PublicationOnChange(b)
  \/ VolumeIssuePagesOnChange(b)
  \/ DoiUrlOnChange(b)
  \/ handleSourceTypeChange(b)
  \/ FormHandleStyleChange(b)

Next ==
  \/ SwitchTab
  \/ QuickSetText
  \/ QuickHandleStyleChange
  \/ QuickClickGenerate
  \/ FormInput(PageMaxFilled)
  \/ FormClickGenerate
  \/ Transmit
  \/ Settle
  \/ SettleUnmounted
  \/ Finally

Spec == Init /\ [][Next]_vars

(***************************************************************************)
(* The manual form explored alone, once its tab has been opened.           *)
(***************************************************************************)
InitForm ==
  /\ activeTab = 1
  /\ quick = QuickInit
  /\ form = FormInit
  /\ wire = NoRequest
  /\ requests = <<>>
  /\ running = Idle
  /\ preview = PreviewInit
  /\ upload = UploadInit
  /\ research = ResearchInit
  /\ fetches = <<>>

NextForm ==
  \/ FormInput(MaxFilled)
  \/ FormClickGenerate
  \/ Transmit
  \/ Settle
  \/ Finally

SpecForm == InitForm /\ [][NextForm]_vars

(***************************************************************************)
(* The request builder of the manual form applied to drawn form states:    *)
(* every title and every author list can be typed into the form.           *)
(***************************************************************************)
Authors == [first_name : FieldInputs, last_name : FieldInputs, middle_name : FieldInputs]

RECURSIVE AuthorListsOfLen(_)
AuthorListsOfLen(n) ==
  IF n = 0 THEN {<<>>}
  ELSE {Append(as, a) : as \in AuthorListsOfLen(n - 1), a \in Authors}

AuthorLists == UNION {AuthorListsOfLen(n) : n \in 1..MaxAuthors}

InitBuilder ==
  /\ activeTab = 1
  /\ quick = QuickInit
  /\ form \in {[FormInit EXCEPT !.title = t, !.authors = as] :
                 t \in Texts(MaxTextLen), as \in AuthorLists}
  /\ wire = NoRequest
  /\ requests = <<>>
  /\ running = Idle
  /\ preview = PreviewInit
  /\ upload = UploadInit
  /\ research = ResearchInit
  /\ fetches = <<>>

NextBuilder ==
  \/ FormClickGenerate
  \/ Transmit
  \/ Settle
  \/ Finally

SpecBuilder == InitBuilder /\ [][NextBuilder]_vars

(***************************************************************************)
(* The page, with handleGenerate of the quick form also invoked directly,  *)
(* whatever the disabled attribute of its button says.                     *)
(***************************************************************************)
NextDirect ==
  \/ Next
  \/ QuickHandleGenerate

SpecDirect == Init /\ [][NextDirect]_vars

(***************************************************************************)
(* The page, with the resumed handler running to its end: the finally      *)
(* block follows the try / catch in the same run of the event loop.        *)
(***************************************************************************)
(***************************************************************************)
(* The page with the inputs of the manual form left as they are: either    *)
(* the quick form is shown, or the manual form with a title and a last     *)
(* name typed in.                                                          *)
(***************************************************************************)
ReadyForm ==
  [FormInit EXCEPT !.title = <<"a">>,
                   !.authors = <<[EmptyAuthor EXCEPT !.last_name = <<"a">>]>>]

InitSubmit ==
  /\ activeTab \in {0, 1}
  /\ quick = QuickInit
  /\ form = IF activeTab = 1 THEN ReadyForm ELSE FormInit
  /\ wire = NoRequest
  /\ requests = <<>>
  /\ running = Idle
  /\ preview = PreviewInit
  /\ upload = UploadInit
  /\ research = ResearchInit
  /\ fetches = <<>>

NextSubmit ==
  \/ SwitchTab
  \/ QuickSetText
  \/ QuickHandleStyleChange
  \/ QuickClickGenerate
  \/ FormClickGenerate
  \/ Transmit
  \/ Settle
  \/ SettleUnmounted
  \/ Finally

SpecSubmit == InitSubmit /\ [][NextSubmit]_vars

(***************************************************************************)
(* The page, with validateCitation of the client called as well: no        *)
(* component of the repository calls it.                                   *)
(***************************************************************************)
\* citationApi.validateCitation up to its await
ValidateCitationCall ==
  /\ Quiet
  /\ CanSend
  /\ \E c \in {CitationA.citation, CitationB.citation}, s \in QuickStyles :
       wire' = [api |-> "validateCitation", body |-> [citation |-> c, style |-> s]]
  /\ UNCHANGED <<activeTab, quick, form, requests, running, preview,
               upload, research, fetches>>

NextClient ==
  \/ NextSubmit
  \/ ValidateCitationCall

SpecClient == InitSubmit /\ [][NextClient]_vars
(***************************************************************************)
(* CitationPreview: the warnings block and the export buttons.             *)
(***************************************************************************)
\* citation.warnings, undefined when the body has no such field
WarningsOf(citation) ==
  IF "warnings" \in DOMAIN citation THEN citation.warnings ELSE JsUndefined
\* the warnings block, were an empty list shown as an empty block
WarningsBlock_Placeholder(citation) ==
  LET w == WarningsOf(citation) IN
  IF Truthy(w)
  THEN [t |-> "object", heading |-> "Warnings:",
        lines |-> [idx \in 1..Len(w.items) |-> [bullet |-> TRUE, text |-> w.items[idx]]]]
  ELSE JsNull

\* {citation.warnings && citation.warnings.length > 0 && (<Box> ... </Box>)}:
\* a heading and one line per warning, a bullet before its text; a falsy
\* value renders nothing
WarningsBlock(citation) ==
  LET w == WarningsOf(citation) IN
  IF Truthy(w) /\ Len(w.items) > 0
  THEN [t |-> "object", heading |-> "Warnings:",
        lines |-> [idx \in 1..Len(w.items) |-> [bullet |-> TRUE, text |-> w.items[idx]]]]
  ELSE JsNull

\* CitationPreview renders its warnings block
RenderWarnings ==
  /\ Quiet
  /\ PreviewShown
  /\ preview' = [preview EXCEPT !.block = WarningsBlock(Displayed)]
  /\ UNCHANGED <<activeTab, quick, form, wire, requests, running,
               upload, research, fetches>>

ExportFormats == {"txt", "bib", "ris"}
\* handleDownload, were the BibTeX export wrapped in an entry
handleDownload_BibEntry(format) ==
  /\ Quiet
  /\ PreviewShown
  /\ Len(preview.files) < MaxDownloads
  /\ preview' = [preview EXCEPT !.files = Append(@,
       [format |-> format, name |-> "citation." \o format,
        type |-> "text/plain",
        content |-> IF format = "bib"
                    THEN "@misc{citation, note = {" \o Displayed.citation \o "}}"
                    ELSE Displayed.citation])]
  /\ UNCHANGED <<activeTab, quick, form, wire, requests, running,
               upload, research, fetches>>

\* handleDownload, were the downloads numbered
handleDownload_Numbered(format) ==
  /\ Quiet
  /\ PreviewShown
  /\ Len(preview.files) < MaxDownloads
  /\ preview' = [preview EXCEPT !.files = Append(@,
       [format |-> format,
        name |-> IF Len(preview.files) = 0 THEN "citation." \o format
                 ELSE "citation (1)." \o format,
        type |-> "text/plain", content |-> Displayed.citation])]
  /\ UNCHANGED <<activeTab, quick, form, wire, requests, running,
               upload, research, fetches>>

\* handleDownload: a Blob of the citation string, saved as citation.<format>
handleDownload(format) ==
  /\ Quiet
  /\ PreviewShown
  /\ Len(preview.files) < MaxDownloads
  /\ preview' = [preview EXCEPT !.files = Append(@,
       [format |-> format, name |-> "citation." \o format,
        type |-> "text/plain", content |-> Displayed.citation])]
  /\ UNCHANGED <<activeTab, quick, form, wire, requests, running,
               upload, research, fetches>>

WarningTexts == {"Missing DOI", "Missing publisher"}

WarningListsOfLen(n) == [1..n -> WarningTexts]

\* citations as the server can answer them: with a list of warnings, with
\* warnings null, and without the field
Citations ==
  LET ws == {JsList(w) : w \in UNION {WarningListsOfLen(n) : n \in 0..MaxWarnings}}
            \cup {JsNull}
  IN UNION {{[c EXCEPT !.warnings = w] : w \in ws}
            \cup {[f \in DOMAIN c \ {"warnings"} |-> c[f]]} : c \in {CitationA, CitationB}}

\* one of the forms shows a citation it has generated
InitPreview ==
  /\ activeTab \in {0, 1}
  /\ \E c \in Citations :
       /\ quick = IF activeTab = 0 THEN [QuickInit EXCEPT !.citation = c] ELSE QuickInit
       /\ form = IF activeTab = 1 THEN [FormInit EXCEPT !.citation = c] ELSE FormInit
  /\ wire = NoRequest
  /\ requests = <<>>
  /\ running = Idle
  /\ preview = PreviewInit
  /\ upload = UploadInit
  /\ research = ResearchInit
  /\ fetches = <<>>

NextPreview ==
  \/ RenderWarnings
  \/ \E format \in ExportFormats : handleDownload(format)

SpecPreview == InitPreview /\ [][NextPreview]_vars
(***************************************************************************)
(* CopyButton of the preview.                                              *)
(***************************************************************************)
\* handleCopy up to its await: navigator.clipboard.writeText is called
handleCopy ==
  /\ Quiet
  /\ PreviewShown
  /\ preview.copies + preview.writing < MaxCopies
  /\ preview' = [preview EXCEPT !.writing = @ + 1]
  /\ UNCHANGED <<activeTab, quick, form, wire, requests, running,
               upload, research, fetches>>
\* ClipboardSettle, were the feedback shown whatever the outcome of the write
ClipboardSettle_AlwaysCopied ==
  /\ Quiet
  /\ preview.writing > 0
  /\ \E written \in BOOLEAN :
       preview' =
         IF written
         THEN [preview EXCEPT !.writing = @ - 1, !.result = "written",
                              !.copied = TRUE, !.copies = @ + 1,
                              !.timers = @ \cup {preview.copies + 1}]
         ELSE [preview EXCEPT !.writing = @ - 1, !.result = "rejected",
                              !.copied = TRUE]
  /\ UNCHANGED <<activeTab, quick, form, wire, requests, running,
               upload, research, fetches>>

\* handleCopy after its await: the write succeeded, setCopied(true) and a
\* timeout is set; or it failed, and the catch block logs it
ClipboardSettle ==
  /\ Quiet
  /\ preview.writing > 0
  /\ \E written \in BOOLEAN :
       preview' =
         IF written
         THEN [preview EXCEPT !.writing = @ - 1, !.result = "written",
                              !.copied = TRUE, !.copies = @ + 1,
                              !.timers = @ \cup {preview.copies + 1}]
         ELSE [preview EXCEPT !.writing = @ - 1, !.result = "rejected"]
  /\ UNCHANGED <<activeTab, quick, form, wire, requests, running,
               upload, research, fetches>>

\* the callback of setTimeout: setCopied(false)
CopiedTimeout ==
  /\ Quiet
  /\ \E id \in preview.timers :
       preview' = [preview EXCEPT !.timers = @ \ {id}, !.copied = FALSE]
  /\ UNCHANGED <<activeTab, quick, form, wire, requests, running,
               upload, research, fetches>>

\* Snackbar onClose, after autoHideDuration or on a click elsewhere
SnackbarClose ==
  /\ Quiet
  /\ preview.copied
  /\ preview' = [preview EXCEPT !.copied = FALSE]
  /\ UNCHANGED <<activeTab, quick, form, wire, requests, running,
               upload, research, fetches>>

\* the quick form shows a citation it has generated
InitCopy ==
  /\ activeTab = 0
  /\ \E c \in {CitationA, CitationB} :
       quick = [QuickInit EXCEPT !.text = <<"a">>, !.citation = c]
  /\ form = FormInit
  /\ wire = NoRequest
  /\ requests = <<>>
  /\ running = Idle
  /\ preview = PreviewInit
  /\ upload = UploadInit
  /\ research = ResearchInit
  /\ fetches = <<>>

NextCopy ==
  \/ handleCopy
  \/ ClipboardSettle
  \/ CopiedTimeout
  \/ SnackbarClose
  \/ SwitchTab
  \/ QuickSetText
  \/ QuickClickGenerate
  \/ Transmit
  \/ Settle
  \/ SettleUnmounted
  \/ Finally

SpecCopy == InitCopy /\ [][NextCopy]_vars

\* a due timer callback runs once the handler that is running has finished
SpecCopyFair ==
  /\ SpecCopy
  /\ SF_vars(CopiedTimeout)
  /\ WF_vars(Transmit)
  /\ WF_vars(Finally)
(***************************************************************************)
(* The manual form submitted with a year typed in.                         *)
(***************************************************************************)
\* values a number input can hold: the empty string or a valid number
YearTexts ==
  {<<>>, <<"2">>, <<"-", "5">>, <<".", "5">>, <<"1", ".", "5">>, <<"2", "e", "3">>}

\* JSON.stringify of a number, as axios serialises the body: NaN becomes null
JsonNumber(v) ==
  IF v.t = "number" /\ "nan" \in DOMAIN v THEN JsNull ELSE v

InitYear ==
  /\ activeTab = 1
  /\ quick = QuickInit
  /\ form \in {[ReadyForm EXCEPT !.year = y] : y \in YearTexts}
  /\ wire = NoRequest
  /\ requests = <<>>
  /\ running = Idle
  /\ preview = PreviewInit
  /\ upload = UploadInit
  /\ research = ResearchInit
  /\ fetches = <<>>

NextYear ==
  \/ FormClickGenerate
  \/ Transmit
  \/ Settle
  \/ Finally

SpecYear == InitYear /\ [][NextYear]_vars
(***************************************************************************)
(* DocumentUpload: uploading a file.                                       *)
(***************************************************************************)
citationVars == <<activeTab, quick, form, wire, requests, running, preview>>

\* file names, as the segments between their dots
FileNames == {<<"paper", "pdf">>, <<"PAPER", "PDF">>, <<"run", "exe">>, <<"pdf">>}

\* String.prototype.toLowerCase on the segments above
ToLowerCase(seg) ==
  CASE seg = "PDF" -> "pdf"
    [] seg = "PAPER" -> "paper"
    [] OTHER -> seg

\* const allowedTypes = ['.pdf', '.docx', '.txt', '.md']
allowedTypes == {".pdf", ".docx", ".txt", ".md"}

\* 10 * 1024 * 1024
MaxFileSize == 10 * 1024 * 1024

FileSizes == {1, MaxFileSize, MaxFileSize + 1}

UploadFiles == {[name |-> n, size |-> sz] : n \in FileNames, sz \in FileSizes}

\* '.' + file.name.split('.').pop()?.toLowerCase()
fileExt(file) == "." \o ToLowerCase(file.name[Len(file.name)])

UnsupportedMessage == "Unsupported file type. Please upload: .pdf, .docx, .txt, .md"

TooLargeMessage == "File size too large. Maximum size is 10MB."

DocIds == {"d1", "d2"}

\* result.document of an upload response
Document(id) == [t |-> "object", id |-> id]

\* how an upload can end: fetch rejects, the body is not JSON, or a JSON body
\* arrives with a status that is ok or not
UploadOutcomes ==
  {[kind |-> "no_response"]}
  \cup {[kind |-> "response", ok |-> ok, json |-> FALSE] : ok \in BOOLEAN}
  \cup {[kind |-> "response", ok |-> ok, json |-> TRUE,
         body |-> [success |-> sc, document |-> d, detail |-> dt, message |-> JsUndefined]] :
          ok \in BOOLEAN, sc \in BOOLEAN,
          d \in {Document(id) : id \in DocIds} \cup {JsUndefined},
          dt \in {JsUndefined, JsStr("File could not be parsed")}}

\* the uploads that are outstanding
Uploads == {i \in 1..Len(fetches) : fetches[i].kind = "upload"}

\* the list of documents can be rendered: an entry that is undefined makes
\* the render throw at doc.id, and the component is gone
UploadRendered ==
  \A i \in 1..Len(upload.uploadedDocs) : upload.uploadedDocs[i] # JsUndefined

\* handleFile up to its await
handleFile(file) ==
  IF fileExt(file) \notin allowedTypes
  THEN /\ upload' = [upload EXCEPT !.error = JsStr(UnsupportedMessage), !.dragActive = FALSE]
       /\ UNCHANGED fetches
  ELSE IF file.size > MaxFileSize
  THEN /\ upload' = [upload EXCEPT !.error = JsStr(TooLargeMessage), !.dragActive = FALSE]
       /\ UNCHANGED fetches
  ELSE /\ Len(upload.uploadedDocs) + Cardinality(Uploads) < MaxDocs
       /\ upload' = [upload EXCEPT !.uploading = TRUE, !.error = JsNull,
                                   !.success = JsNull, !.dragActive = FALSE]
       /\ fetches' = Append(fetches, [kind |-> "upload", file |-> file])

\* handleFileInput: a file chosen in the picker, which the Choose Document
\* button opens unless it is disabled
handleFileInput ==
  /\ UploadRendered
  /\ ~upload.uploading
  /\ ~upload.chatOpen
  /\ \E file \in UploadFiles : handleFile(file)
  /\ UNCHANGED <<citationVars, research>>

\* handleDrop: a file dropped on the upload area
handleDrop ==
  /\ UploadRendered
  /\ ~upload.chatOpen
  /\ \E file \in UploadFiles : handleFile(file)
  /\ UNCHANGED <<citationVars, research>>

\* handleFile after its await: try, catch and finally
UploadHandled(o) ==
  LET done == [upload EXCEPT !.uploading = FALSE, !.handled = o] IN
  IF o.kind = "no_response"
  THEN [done EXCEPT !.error = JsStr("Upload error: Failed to fetch")]
  ELSE IF ~o.json
  THEN [done EXCEPT !.error = JsStr("Upload error: Unexpected token")]
  ELSE IF o.ok /\ o.body.success
  THEN IF o.body.document = JsUndefined
       THEN [done EXCEPT !.uploadedDocs = Append(@, JsUndefined),
                         !.error = JsStr("Upload error: Cannot read properties of undefined")]
       ELSE [done EXCEPT !.uploadedDocs = Append(@, o.body.document),
                         !.success = JsStr("processed successfully")]
  ELSE [done EXCEPT !.error = JsOr(o.body.detail, JsOr(o.body.message, JsStr("Upload failed")))]

\* an upload ends and the rest of handleFile runs
UploadSettle ==
  /\ UploadRendered
  /\ \E i \in Uploads, o \in UploadOutcomes :
       /\ fetches' = RemoveAt(fetches, i)
       /\ upload' = UploadHandled(o)
  /\ UNCHANGED <<citationVars, research>>

\* the Delete Document button of a listed document
DeleteDocument ==
  /\ UploadRendered
  /\ ~upload.chatOpen
  /\ \E i \in 1..Len(upload.uploadedDocs) :
       upload' = [upload EXCEPT !.uploadedDocs =
                    SelectSeq(@, LAMBDA d : d.id # upload.uploadedDocs[i].id)]
  /\ UNCHANGED <<citationVars, research, fetches>>

\* onClose of the error and of the success Alert
CloseAlert ==
  /\ UploadRendered
  /\ ~upload.chatOpen
  /\ \E field \in {"error", "success"} :
       /\ upload[field] # JsNull
       /\ upload' = [upload EXCEPT ![field] = JsNull]
  /\ UNCHANGED <<citationVars, research, fetches>>

InitUpload ==
  /\ activeTab = 0
  /\ quick = QuickInit
  /\ form = FormInit
  /\ wire = NoRequest
  /\ requests = <<>>
  /\ running = Idle
  /\ preview = PreviewInit
  /\ upload = UploadInit
  /\ research = ResearchInit
  /\ fetches = <<>>

NextUpload ==
  \/ handleFileInput
  \/ handleDrop
  \/ UploadSettle
  \/ DeleteDocument
  \/ CloseAlert

SpecUpload == InitUpload /\ [][NextUpload]_vars
(***************************************************************************)
(* DocumentUpload: the chat with a document. The timestamps of the         *)
(* messages are left out.                                                  *)
(***************************************************************************)
\* the chat requests that are outstanding
ChatFetches == {i \in 1..Len(fetches) : fetches[i].kind \in {"start", "message"}}

Greeting == [role |-> "assistant", content |-> JsStr("Hello! I'm ready to answer questions")]

\* how a chat request can end; reply stands for session_id in the answer to
\* a start and for ai_response in the answer to a message
ChatOutcomes ==
  {[kind |-> "no_response"]}
  \cup {[kind |-> "response", ok |-> ok, json |-> FALSE] : ok \in BOOLEAN}
  \cup {[kind |-> "response", ok |-> ok, json |-> TRUE,
         body |-> [reply |-> r, detail |-> dt]] :
          ok \in BOOLEAN, r \in {JsUndefined, JsStr("s1")},
          dt \in {JsUndefined, JsStr("Session not found")}}

\* startChat up to its await: the Start Chat button of a listed document
startChat ==
  /\ UploadRendered
  /\ ~upload.chatOpen
  /\ ~upload.chatLoading
  /\ \E i \in 1..Len(upload.uploadedDocs) :
       fetches' = Append(fetches, [kind |-> "start", document |-> upload.uploadedDocs[i]])
  /\ upload' = [upload EXCEPT !.chatLoading = TRUE]
  /\ UNCHANGED <<citationVars, research>>

\* startChat after its await: try, catch and finally
ChatStarted(document, o) ==
  LET done == [upload EXCEPT !.chatLoading = FALSE, !.handled = o] IN
  IF o.kind = "no_response"
  THEN [done EXCEPT !.error = JsStr("Chat error: Failed to fetch")]
  ELSE IF ~o.json
  THEN [done EXCEPT !.error = JsStr("Chat error: Unexpected token")]
  ELSE IF o.ok
  THEN [done EXCEPT !.sessionId = o.body.reply, !.currentDoc = document,
                    !.messages = <<Greeting>>, !.chatOpen = TRUE]
  ELSE [done EXCEPT !.error =
          IF Truthy(o.body.detail)
          THEN JsStr("Failed to start chat: Session not found")
          ELSE JsStr("Failed to start chat: Unknown error")]

ChatStartSettle ==
  /\ UploadRendered
  /\ \E i \in ChatFetches, o \in ChatOutcomes :
       /\ fetches[i].kind = "start"
       /\ fetches' = RemoveAt(fetches, i)
       /\ upload' = ChatStarted(fetches[i].document, o)
  /\ UNCHANGED <<citationVars, research>>

\* onChange of the message field, which is disabled while chatLoading
setMessageInput ==
  /\ upload.chatOpen
  /\ ~upload.chatLoading
  /\ \E v \in Texts(MaxTextLen) :
       /\ v # upload.messageInput
       /\ upload' = [upload EXCEPT !.messageInput = v]
  /\ UNCHANGED <<citationVars, research, fetches>>

\* sendMessage, were the session not checked
sendMessage_NoSessionCheck ==
  /\ Trim(upload.messageInput) # <<>>
  /\ Len(upload.messages) + 2 <= MaxMessages
  /\ upload' = [upload EXCEPT
       !.messages = Append(@, [role |-> "user", content |-> JsText(upload.messageInput)]),
       !.messageInput = <<>>,
       !.chatLoading = TRUE]
  /\ fetches' = Append(fetches, [kind |-> "message", session |-> upload.sessionId,
                                 message |-> upload.messageInput])
  /\ UNCHANGED <<citationVars, research>>

\* sendMessage up to its await: nothing happens for a blank input or without
\* a session
sendMessage ==
  /\ Trim(upload.messageInput) # <<>>
  /\ Truthy(upload.sessionId)
  /\ Len(upload.messages) + 2 <= MaxMessages
  /\ upload' = [upload EXCEPT
       !.messages = Append(@, [role |-> "user", content |-> JsText(upload.messageInput)]),
       !.messageInput = <<>>,
       !.chatLoading = TRUE]
  /\ fetches' = Append(fetches, [kind |-> "message", session |-> upload.sessionId,
                                 message |-> upload.messageInput])
  /\ UNCHANGED <<citationVars, research>>

\* the Send button
SendDisabled == upload.chatLoading \/ Trim(upload.messageInput) = <<>>

\* a click on the Send button
SendClick ==
  /\ upload.chatOpen
  /\ ~SendDisabled
  /\ sendMessage

\* onKeyPress of the message field, disabled while chatLoading: Enter
\* without Shift
onKeyPress ==
  /\ upload.chatOpen
  /\ ~upload.chatLoading
  /\ sendMessage

FallbackReply == "I received your message but had trouble generating a response."

\* the assistant message sendMessage appends after its await
AssistantMessage(o) ==
  IF o.kind = "no_response" \/ ~o.json
  THEN [role |-> "assistant", content |-> JsStr("Connection error. Is the backend running?")]
  ELSE IF o.ok
  THEN [role |-> "assistant", content |-> JsOr(o.body.reply, JsStr(FallbackReply))]
  ELSE [role |-> "assistant",
        content |-> IF Truthy(o.body.detail) THEN JsStr("Error: Session not found")
                    ELSE JsStr("Error: Unknown error occurred")]

\* sendMessage after its await: try, catch and finally
MessageHandled(o) ==
  [upload EXCEPT !.messages = Append(@, AssistantMessage(o)),
                 !.chatLoading = FALSE, !.handled = o]

MessageSettle ==
  /\ UploadRendered
  /\ \E i \in ChatFetches, o \in ChatOutcomes :
       /\ fetches[i].kind = "message"
       /\ fetches' = RemoveAt(fetches, i)
       /\ upload' = MessageHandled(o)
  /\ UNCHANGED <<citationVars, research>>

\* Close Chat, or onClose of the dialog
CloseChat ==
  /\ upload.chatOpen
  /\ upload' = [upload EXCEPT !.chatOpen = FALSE]
  /\ UNCHANGED <<citationVars, research, fetches>>

\* a document has been uploaded
InitChat ==
  /\ activeTab = 0
  /\ quick = QuickInit
  /\ form = FormInit
  /\ wire = NoRequest
  /\ requests = <<>>
  /\ running = Idle
  /\ preview = PreviewInit
  /\ \E id \in DocIds : upload = [UploadInit EXCEPT !.uploadedDocs = <<Document(id)>>]
  /\ research = ResearchInit
  /\ fetches = <<>>

NextChat ==
  \/ startChat
  \/ ChatStartSettle
  \/ setMessageInput
  \/ SendClick
  \/ onKeyPress
  \/ MessageSettle
  \/ CloseChat

SpecChat == InitChat /\ [][NextChat]_vars
(***************************************************************************)
(* ResearchPage.                                                           *)
(***************************************************************************)
ResearchFetches == {i \in 1..Len(fetches) : fetches[i].kind = "research"}

\* requests of the mounted page that are not yet answered
LiveSearches == {i \in ResearchFetches : fetches[i].live}

\* positions of the Max Papers slider (min 1, max 10)
MaxResultsValues == {1, 5, 10}

EnterQueryMessage == "Please enter a research query"

\* the body the service answers a research request with
ResearchResponse(f) == [t |-> "object", search |-> f.id, query |-> f.query]

\* researchAPI.conductResearch: response.data, which is empty when the body
\* is, or the error axios rejects with
ResearchOutcomes ==
  {[kind |-> "data", empty |-> e] : e \in BOOLEAN}
  \cup {[kind |-> "error", detail |-> dt, message |-> m] :
          dt \in {JsUndefined, JsStr("Research service unavailable")},
          m \in {JsStr(""), JsStr("timeout of 120000ms exceeded")}}

\* the query field
setQuery ==
  /\ ~research.loading
  /\ \E q \in Texts(MaxTextLen) :
       /\ q # research.query
       /\ research' = [research EXCEPT !.query = q]
  /\ UNCHANGED <<citationVars, upload, fetches>>

\* the Max Papers slider
setMaxResults ==
  /\ ~research.loading
  /\ \E n \in MaxResultsValues :
       /\ n # research.maxResults
       /\ research' = [research EXCEPT !.maxResults = n]
  /\ UNCHANGED <<citationVars, upload, fetches>>

handleSearch_KeepsResult ==
  /\ IF Trim(research.query) = <<>>
     THEN /\ research' = [research EXCEPT !.error = JsStr(EnterQueryMessage)]
          /\ fetches' = fetches
     ELSE /\ research.searches < MaxSearches
          /\ research' = [research EXCEPT !.loading = TRUE, !.error = JsNull,
                                          !.searches = @ + 1]
          /\ fetches' = Append(fetches,
                               [kind |-> "research", live |-> TRUE,
                                id |-> research.searches + 1,
                                query |-> Trim(research.query),
                                max_results |-> research.maxResults])
  /\ UNCHANGED <<citationVars, upload>>

\* handleSearch up to its await
handleSearch ==
  /\ IF Trim(research.query) = <<>>
     THEN /\ research' = [research EXCEPT !.error = JsStr(EnterQueryMessage)]
          /\ fetches' = fetches
     ELSE /\ research.searches < MaxSearches
          /\ research' = [research EXCEPT !.loading = TRUE, !.error = JsNull,
                                          !.result = JsNull, !.searches = @ + 1]
          /\ fetches' = Append(fetches,
                               [kind |-> "research", live |-> TRUE,
                                id |-> research.searches + 1,
                                query |-> Trim(research.query),
                                max_results |-> research.maxResults])
  /\ UNCHANGED <<citationVars, upload>>

\* the Start Research button
SearchClick ==
  /\ ~(research.loading \/ Trim(research.query) = <<>>)
  /\ handleSearch

\* Ctrl+Enter in the query field, which is disabled while loading
onKeyDown ==
  /\ ~research.loading
  /\ handleSearch

\* handleSearch from the end of its await to the end of its finally block
SearchHandled(f, o) ==
  LET done == [research EXCEPT !.loading = FALSE,
                               !.handled = [search |-> f.id, outcome |-> o]] IN
  IF o.kind = "data"
  THEN [done EXCEPT !.result = IF o.empty THEN JsStr("") ELSE ResearchResponse(f)]
  ELSE [done EXCEPT !.error = JsOr(o.detail, JsOr(o.message, JsStr("Research failed")))]

ResearchSettle ==
  /\ \E i \in LiveSearches, o \in ResearchOutcomes :
       /\ fetches' = RemoveAt(fetches, i)
       /\ research' = SearchHandled(fetches[i], o)
  /\ UNCHANGED <<citationVars, upload>>

\* the answer to a request of a page that has been unmounted since: the
\* setters of handleSearch change nothing
ResearchSettleUnmounted ==
  /\ \E i \in ResearchFetches :
       /\ ~fetches[i].live
       /\ fetches' = RemoveAt(fetches, i)
  /\ UNCHANGED <<citationVars, upload, research>>

\* onClose of the error alert
CloseResearchError ==
  /\ research.error # JsNull
  /\ research' = [research EXCEPT !.error = JsNull]
  /\ UNCHANGED <<citationVars, upload, fetches>>

\* the route changes and comes back to /research: the page is unmounted and
\* mounted anew, its requests are not aborted
LeaveResearchPage ==
  /\ research' = [ResearchInit EXCEPT !.searches = research.searches]
  /\ fetches' = [i \in 1..Len(fetches) |->
                   IF i \in ResearchFetches
                   THEN [fetches[i] EXCEPT !.live = FALSE] ELSE fetches[i]]
  /\ research' # research \/ fetches' # fetches
  /\ UNCHANGED <<citationVars, upload>>

InitResearch ==
  /\ activeTab = 0
  /\ quick = QuickInit
  /\ form = FormInit
  /\ wire = NoRequest
  /\ requests = <<>>
  /\ running = Idle
  /\ preview = PreviewInit
  /\ upload = UploadInit
  /\ research = ResearchInit
  /\ fetches = <<>>

NextResearch ==
  \/ setQuery
  \/ setMaxResults
  \/ SearchClick
  \/ onKeyDown
  \/ ResearchSettle
  \/ ResearchSettleUnmounted
  \/ CloseResearchError
  \/ LeaveResearchPage

SpecResearch == InitResearch /\ [][NextResearch]_vars

\* a handler whose await has ended runs on to the end of its finally block
SpecFair == SpecSubmit /\ WF_vars(Finally)

\* the client and the handlers take every step they can; the remote side is
\* free never to answer
SpecUnanswered == SpecSubmit /\ WF_vars(Transmit) /\ WF_vars(Finally)

(***************************************************************************)
(* Properties.                                                             *)
(***************************************************************************)
\* submissions of the mounted instance of a form that are not yet handled:
\* being sent, awaiting the answer, or being handled
InFlight(api) ==
  Cardinality(LiveRequests(api))
  + BoolToNat(wire.api = api)
  + BoolToNat(running.api = api /\ running.live)

\* C1: each form instance has at most one citation-generation request in
\* flight, from the start of a submission until its outcome has been handled.
C1_OneInFlight ==
  /\ InFlight("quickGenerate") <= 1
  /\ InFlight("generateCitation") <= 1

\* a quick request awaits its answer while the text alone would enable the button
C1_Witness ==
  /\ Cardinality(LiveRequests("quickGenerate")) = 1
  /\ quick.loading
  /\ Trim(quick.text) # <<>>
  /\ Quiet

NameGiven(s) == s # <<>>

CompleteIndexes(as) ==
  {i \in 1..Len(as) : NameGiven(as[i].first_name) /\ NameGiven(as[i].last_name)}

\* C2: the manual form sends a request to /citations/generate only when it
\* holds at least one author with both a first and a last name.
C2_CompleteAuthorRequired ==
  wire.api = "generateCitation" => CompleteIndexes(form.authors) # {}

\* C3: with an empty or whitespace-only text no step starts a quick request,
\* and the step of handleGenerate that raises the validation message leaves
\* loading, the citation and the network as they were.
C3_BlankTextSendsNothing ==
  [][Trim(quick.text) = <<>> =>
       /\ ~(wire'.api = "quickGenerate" /\ wire' # wire)
       /\ (quick'.error = JsStr(EnterTextMessage) /\ quick.error # quick'.error) =>
            /\ quick'.loading = quick.loading
            /\ quick'.citation = quick.citation
            /\ quick'.text = quick.text
            /\ wire' = wire /\ requests' = requests]_vars

\* handleGenerate has run on a whitespace-only text: only the message is set
C3_Witness ==
  /\ quick.text # <<>> /\ Trim(quick.text) = <<>>
  /\ quick.error = JsStr(EnterTextMessage)
  /\ ~quick.loading /\ quick.citation = JsNull
  /\ wire = NoRequest /\ requests = <<>>

\* the position of author i among the complete authors
Rank(as, i) == Cardinality({j \in CompleteIndexes(as) : j <= i})

\* C4: the authors of the outgoing payload are exactly the authors of the form
\* with both names non-empty, in their original relative order.
C4_PayloadAuthors ==
  wire.api = "generateCitation" =>
    LET sent == wire.body.metadata.authors
        idx == CompleteIndexes(form.authors)
    IN  /\ Len(sent) = Cardinality(idx)
        /\ \A i \in idx : sent[Rank(form.authors, i)] = form.authors[i]

\* two authors, the second with a last name only: the payload carries the first
C4_Witness ==
  /\ wire.api = "generateCitation"
  /\ Len(form.authors) = 2
  /\ CompleteIndexes(form.authors) = {1}
  /\ NameGiven(form.authors[2].last_name)
  /\ wire.body.metadata.authors = <<form.authors[1]>>

\* C5: the payload never has both publisher and publication populated: for a
\* book only publisher is, for every other source type only publication.
C5_PublisherXorPublication ==
  wire.api = "generateCitation" =>
    LET m == wire.body.metadata IN
    IF m.source_type = "book"
    THEN m.publication = JsNull /\ m.publisher = OrNull(form.publisher)
    ELSE m.publisher = JsNull /\ m.publication = OrNull(form.publication)

\* the handler of a live submission is in its finally block after a failure
FailureHandled(api) ==
  /\ running.live /\ running.api = api
  /\ ~IsSuccess(running.outcome)

ErrorShown(api) == IF api = "quickGenerate" THEN QuickErrorShown ELSE FormErrorShown

\* C6: in both forms a failed Service Client call ends with a non-empty error
\* message displayed.
C6_FailureShowsError ==
  \A api \in {"quickGenerate", "generateCitation"} :
    FailureHandled(api) => Truthy(ErrorShown(api))

Present(v) == v # JsUndefined

\* a non-2xx response
RemoteError(o) == o.kind = "response" /\ ~IsSuccess(o)

\* C7: for a non-2xx response whose body carries detail or message, the error
\* displayed is that field's value: detail when present, otherwise message.
C7_RemoteMessageVerbatim ==
  (/\ FailureHandled("quickGenerate")
   /\ RemoteError(running.outcome)
   /\ Present(running.outcome.data.detail) \/ Present(running.outcome.data.message))
  => QuickErrorShown = IF Present(running.outcome.data.detail)
                       THEN running.outcome.data.detail
                       ELSE running.outcome.data.message

\* what a form shows once a request got no response at all
TransportErrorShown(api) ==
  IF api = "quickGenerate"
  THEN QuickCatch(CitationApiSettle([kind |-> "no_response"]).value)
  ELSE FormErrorShown

\* a non-2xx response that reports its reason in detail or message
RemoteValidationError(o) ==
  /\ RemoteError(o)
  /\ \/ (o.data.detail.t = "string" /\ Truthy(o.data.detail))
     \/ (o.data.message.t = "string" /\ Truthy(o.data.message))

\* C8: what the form shows after a remote validation error never coincides
\* with what it shows after a transport failure.
C8_TransportErrorDistinct ==
  \A api \in {"quickGenerate", "generateCitation"} :
    (FailureHandled(api) /\ RemoteValidationError(running.outcome))
      => ErrorShown(api) # TransportErrorShown(api)

\* a JSON body with the fields of a Citation
IsCitation(v) ==
  v.t = "object" /\ {"citation", "in_text_citation", "style", "format"} \subseteq DOMAIN v

\* C9: a 2xx response without the Citation fields is never stored as the
\* current citation; it ends in a displayed error.
C9_MalformedNeverStored ==
  /\ \A c \in {quick.citation, form.citation} : c = JsNull \/ IsCitation(c)
  /\ \A api \in {"quickGenerate", "generateCitation"} :
       (/\ running.live /\ running.api = api
        /\ IsSuccess(running.outcome) /\ ~IsCitation(running.outcome.data))
       => Truthy(ErrorShown(api))

\* the quick form stays mounted and the error it displays changes
QuickErrorChanges ==
  /\ activeTab = 0 /\ activeTab' = 0
  /\ Truthy(quick.error)
  /\ quick'.error # quick.error

CitationChanges ==
  /\ activeTab' = activeTab
  /\ quick'.citation # quick.citation \/ form'.citation # form.citation

\* C11: the displayed citation changes only when a submission succeeds, and
\* then to the body of that response; edits, validation failures, the start
\* of a submission and failed submissions leave it as it was.
C11_CitationChangesOnSuccessOnly ==
  [][CitationChanges =>
       /\ running = Idle /\ running' # Idle
       /\ IsSuccess(running'.outcome)
       /\ IF running'.api = "quickGenerate"
          THEN quick'.citation = running'.outcome.data /\ form' = form
          ELSE form'.citation = running'.outcome.data /\ quick' = quick]_vars

\* an earlier citation is still held after a later submission has failed
C11_Witness ==
  /\ activeTab = 0 /\ Quiet
  /\ quick.citation = CitationA
  /\ Truthy(quick.error) /\ quick.error # JsStr(EnterTextMessage)
  /\ ~quick.loading

SubmissionStarts(api) ==
  CASE api = "quickGenerate" -> activeTab = 0 /\ ~quick.loading /\ quick'.loading
    [] api = "generateCitation" -> activeTab = 1 /\ ~form.loading /\ form'.loading
    [] OTHER -> UNCHANGED <<quick, form>>

\* C13: a call of generateCitation, quickGenerate or validateCitation issues
\* one HTTP request: a request is written only by the call itself, made by a
\* new submission of the user, it reaches the network once, and handling its
\* outcome consumes it without sending anything again.
C13_OneRequestPerCall ==
  [][/\ (wire' # wire /\ wire' # NoRequest) =>
          /\ wire = NoRequest /\ running = Idle /\ running' = Idle
          /\ requests' = requests
          /\ SubmissionStarts(wire'.api)
     /\ (requests' # requests /\ Len(requests') >= Len(requests)) =>
          \/ /\ wire # NoRequest /\ wire' = NoRequest
             /\ Len(requests') = Len(requests) + 1
             /\ SubSeq(requests', 1, Len(requests)) = requests
             /\ requests'[Len(requests')].api = wire.api
          \/ /\ requests' = Orphaned(requests)
             /\ wire' = wire
     /\ (running = Idle /\ running' # Idle) =>
          /\ Len(requests') = Len(requests) - 1
          /\ wire' = NoRequest]_vars

\* a failed quick submission has been handled: nothing is pending or being sent
C13_Witness ==
  /\ activeTab = 0 /\ Quiet
  /\ Truthy(quick.error) /\ ~quick.loading
  /\ requests = <<>>

\* the requests whose handler belongs to a dismantled form
Outstanding == {i \in 1..Len(requests) : ~requests[i].live}

\* C14: a form dismantled by a tab switch leaves its outstanding request
\* behind; the form mounted in its place starts with no citation, no error
\* and loading false, and the late answer of such a request changes the state
\* of no form, dismantled or mounted.
C14_LateAnswerDiscarded ==
  [][/\ activeTab' # activeTab =>
          /\ quick'.citation = JsNull /\ quick'.error = JsNull /\ ~quick'.loading
          /\ form'.citation = JsNull /\ ~form'.loading
          /\ quick' = QuickInit /\ form' = FormInit
          /\ Len(requests') = Len(requests)
          /\ \A i \in 1..Len(requests') :
               requests'[i].api = requests[i].api /\ ~requests'[i].live
     /\ (\E i \in Outstanding : requests' = RemoveAt(requests, i)) =>
          /\ quick' = quick /\ form' = form
          /\ running' = running /\ running = Idle]_vars

\* the quick form was dismantled with its request outstanding, the manual form
\* mounted in its place is fresh, and has itself been edited since
C14_Witness ==
  /\ activeTab = 1
  /\ \E i \in Outstanding : requests[i].api = "quickGenerate"
  /\ form.title # <<>> /\ form.citation = JsNull /\ ~form.loading

\* the files downloaded from the preview
Files == {preview.files[i] : i \in 1..Len(preview.files)}

\* C15: an export is computed from the citation on display alone: it sends
\* nothing, changes neither the citation nor the state of a form, and two
\* exports of the same citation in the same format have the same file name
\* and the same content.
C15_ExportIsPure ==
  /\ [](\A a, b \in Files :
         a.format = b.format => a.name = b.name /\ a.content = b.content)
  /\ [][preview.files' # preview.files =>
          /\ wire' = wire /\ requests' = requests /\ running' = running
          /\ activeTab' = activeTab /\ quick' = quick /\ form' = form
          /\ Displayed' = Displayed
          /\ Len(preview.files') = Len(preview.files) + 1
          /\ preview.files'[Len(preview.files')].content = Displayed.citation]_vars

\* the same format was exported twice
C15_Witness ==
  \E i, j \in 1..Len(preview.files) :
    i # j /\ preview.files[i].format = preview.files[j].format

\* the citation on display has a warnings list with at least one entry
HasWarnings ==
  /\ "warnings" \in DOMAIN Displayed
  /\ Displayed.warnings # JsNull
  /\ Displayed.warnings.items # <<>>

\* C17: the warnings block of the preview has one line per entry of
\* citation.warnings, with the entry's text, in the order of the list; for an
\* empty list, a null list or a citation without the field nothing is
\* rendered.
C17_WarningsVerbatim ==
  preview.block # JsUndefined =>
    IF HasWarnings
    THEN /\ preview.block # JsNull
         /\ Len(preview.block.lines) = Len(Displayed.warnings.items)
         /\ \A i \in 1..Len(preview.block.lines) :
              preview.block.lines[i].text = Displayed.warnings.items[i]
    ELSE preview.block = JsNull

\* a block of two different warnings has been rendered
C17_Witness ==
  /\ preview.block.t = "object"
  /\ Len(preview.block.lines) = 2
  /\ preview.block.lines[1].text = "Missing publisher"
  /\ preview.block.lines[2].text = "Missing DOI"

\* nothing was rendered for a citation that has no warnings field
C17_WitnessAbsent ==
  /\ preview.block = JsNull
  /\ PreviewShown
  /\ "warnings" \notin DOMAIN Displayed

\* a step in which a clipboard write ends
WriteEnds(result) ==
  /\ preview'.writing = preview.writing - 1
  /\ preview'.result = result

\* C16: a successful clipboard write turns the feedback of the copy button on
\* and the feedback goes off again by itself; a failed write is caught: it
\* turns no feedback on, sets no timer and changes nothing in the form.
C16_CopyFeedback ==
  /\ [][/\ WriteEnds("written") =>
             /\ preview'.copied
             /\ preview'.timers # {}
             /\ quick' = quick /\ form' = form
        /\ WriteEnds("rejected") =>
             /\ preview'.copied = preview.copied
             /\ preview'.timers = preview.timers
             /\ quick' = quick /\ form' = form]_vars
  /\ [](preview.copied => preview.timers # {})
  /\ preview.copied ~> ~preview.copied

\* one write succeeded and its feedback has expired, then one failed: no
\* feedback, no timer, no error in the form
C16_Witness ==
  /\ preview.result = "rejected" /\ preview.copies = 1
  /\ ~preview.copied /\ preview.timers = {}
  /\ PreviewShown /\ quick.error = JsNull

\* C18: a title that is empty after trimming counts as missing: the Generate
\* button of the manual form is disabled and no request carries such a title.
C18_BlankTitleBlocked ==
  /\ Trim(form.title) = <<>> => FormGenerateDisabled
  /\ wire.api = "generateCitation" => Trim(wire.body.metadata.title) # <<>>

\* C19: a request has a bounded timeout: also when the remote side never
\* answers, a form that is submitting eventually stops submitting.
C19_SubmissionTimesOut ==
  /\ quick.loading ~> ~quick.loading
  /\ form.loading ~> ~form.loading

OptionalFields == {"publication", "volume", "issue", "pages", "doi", "url", "publisher"}

\* C20: in the payload of the manual form each of publication, volume,
\* issue, pages, doi, url and publisher is null exactly when its input is the
\* empty string and is the typed value otherwise; none is an empty string.
C20_EmptyOptionalIsNull ==
  wire.api = "generateCitation" =>
    \A n \in OptionalFields :
      LET sent == wire.body.metadata[n] IN
      /\ sent = JsNull <=> form[n] = <<>>
      /\ sent # JsNull => sent.t = "string" /\ sent.chars = form[n]
      /\ sent # JsText(<<>>)

\* a payload with one optional field typed in and the others left empty
C20_Witness ==
  /\ wire.api = "generateCitation"
  /\ wire.body.metadata.doi = JsText(<<"a">>)
  /\ wire.body.metadata.url = JsNull
  /\ form.url = <<>>

\* the text is an integer numeral: digits, with or without a minus sign
IsIntegerText(s) ==
  LET digits == IF s # <<>> /\ Head(s) = "-" THEN Tail(s) ELSE s
  IN  digits # <<>> /\ \A i \in 1..Len(digits) : digits[i] \in DigitChars

\* C21: the year of the payload, as serialised, is null for an empty year
\* text, the integer for a text that is an integer numeral, and null for any
\* other text; it is never a number that is not an integer.
C21_YearIntegerOrNull ==
  wire.api = "generateCitation" =>
    LET sent == JsonNumber(wire.body.metadata.year) IN
    CASE form.year = <<>> -> sent = JsNull
      [] IsIntegerText(form.year) -> sent = ParseInt(form.year)
      [] OTHER -> sent = JsNull

\* what the user has entered into the manual form
Editable(f) == [f EXCEPT !.loading = FALSE, !.citation = JsNull]

\* a step of handleGenerate of the manual form: its start, its try / catch or
\* its finally
FormGenerateStep ==
  /\ activeTab' = activeTab
  /\ \/ form'.loading # form.loading
     \/ form'.citation # form.citation
     \/ running' # running /\ "generateCitation" \in {running.api, running'.api}

\* C22: no step of handleGenerate of the manual form changes what the user
\* entered: authors (the incomplete ones too), title, year, the optional
\* fields, source type and style are the same when it ends, with a citation
\* or with a failure, as when it started.
C22_SubmissionKeepsInputs ==
  [][FormGenerateStep => Editable(form') = Editable(form)]_vars

\* a submission succeeded; the form still lists an author left out of the
\* payload
C22_Witness ==
  /\ Quiet /\ ~form.loading /\ form.citation = CitationB
  /\ Len(form.authors) = 2
  /\ AuthorComplete(form.authors[1]) /\ ~AuthorComplete(form.authors[2])

\* C23: every exported file holds exactly the citation string, whatever the
\* format; the files of the three formats differ in nothing but the
\* extension of their names, citation.txt, citation.bib and citation.ris.
C23_ExportDiffersInExtensionOnly ==
  /\ \A a \in Files :
       /\ a.content = Displayed.citation
       /\ a.format \in {"txt", "bib", "ris"}
       /\ a.name = CASE a.format = "txt" -> "citation.txt"
                     [] a.format = "bib" -> "citation.bib"
                     [] a.format = "ris" -> "citation.ris"
  /\ \A a, b \in Files : a.content = b.content /\ a.type = b.type

\* the BibTeX and the RIS export of one citation have both been downloaded
C23_Witness ==
  /\ \E a \in Files : a.format = "bib"
  /\ \E a \in Files : a.format = "ris"

\* C24: the quick form is never submitting and displaying an error at once:
\* loading and a non-null error never hold together, not even between two
\* state updates of handleGenerate.
C24_NeverLoadingWithError ==
  ~(quick.loading /\ quick.error # JsNull)

\* C25: volume, issue and pages are sent only for a journal article, the one
\* source type whose form shows these inputs: for any other source type the
\* payload carries null for all three.
C25_JournalFieldsOnlyForJournal ==
  (wire.api = "generateCitation" /\ wire.body.metadata.source_type # "journal_article")
    => \A n \in {"volume", "issue", "pages"} : wire.body.metadata[n] = JsNull

\* C26: the timer of a copy switches off only the feedback of that copy: when
\* a timer switches the feedback off, it is the timer of the most recent
\* successful copy.
C26_TimerClearsOwnFeedbackOnly ==
  [][(/\ preview.copied /\ ~preview'.copied
      /\ preview'.copies = preview.copies
      /\ preview'.timers # preview.timers)
       => preview.timers \ preview'.timers = {preview.copies}]_vars

\* C27: in DocumentUpload uploading is true exactly while an upload is
\* outstanding, and no two uploads are outstanding together, whether files
\* come from the picker or are dropped.
C27_UploadingIffOneUpload ==
  /\ upload.uploading <=> Uploads # {}
  /\ Cardinality(Uploads) <= 1

\* the name has an extension, and it is one of the four accepted
HasAllowedExtension(file) ==
  /\ Len(file.name) >= 2
  /\ \E ext \in {"pdf", "docx", "txt", "md"} :
       ToLowerCase(file.name[Len(file.name)]) = ext

RejectionMessages == {JsStr(UnsupportedMessage), JsStr(TooLargeMessage)}

\* C29: handleFile sends no upload for a file whose extension is not .pdf,
\* .docx, .txt or .md or whose size is above 10 MB: it sets an error and
\* changes neither uploading nor the list of documents; the list grows only
\* by one document at a time, and only when an upload was answered with an
\* ok status and success.
C29_RejectedFilesNotUploaded ==
  /\ [](\A i \in Uploads :
          /\ HasAllowedExtension(fetches[i].file)
          /\ fetches[i].file.size <= 10485760)
  /\ [][/\ (upload'.error # upload.error /\ upload'.error \in RejectionMessages) =>
             /\ fetches' = fetches
             /\ upload'.uploading = upload.uploading
             /\ upload'.uploadedDocs = upload.uploadedDocs
        /\ Len(upload'.uploadedDocs) > Len(upload.uploadedDocs) =>
             /\ Len(upload'.uploadedDocs) = Len(upload.uploadedDocs) + 1
             /\ Len(fetches') = Len(fetches) - 1
             /\ upload'.handled.kind = "response"
             /\ upload'.handled.ok /\ upload'.handled.json
             /\ upload'.handled.body.success]_vars

\* the messages of the given role
MessagesOf(role) == {i \in 1..Len(upload.messages) : upload.messages[i].role = role}

MessageFetches == {i \in ChatFetches : fetches[i].kind = "message"}

\* C28: in the document chat a sendMessage that is accepted (input not blank,
\* session present) appends one user message and sends one request, and the
\* end of that request, whatever it is, appends one assistant message right
\* after it; nothing is appended or sent for a blank input or without a
\* session; and no two chat requests are outstanding together.
C28_OneReplyPerMessage ==
  /\ [](/\ Cardinality(ChatFetches) <= 1
        /\ \A i \in MessagesOf("user") :
             IF i = Len(upload.messages)
             THEN MessageFetches # {}
             ELSE upload.messages[i + 1].role = "assistant"
        /\ (MessageFetches # {} /\ upload.messages # <<>>) =>
             upload.messages[Len(upload.messages)].role = "user")
  /\ [][/\ (\/ Cardinality(MessageFetches') > Cardinality(MessageFetches)
            \/ Cardinality(MessagesOf("user")') > Cardinality(MessagesOf("user"))) =>
             /\ Trim(upload.messageInput) # <<>>
             /\ upload.sessionId \notin {JsNull, JsUndefined}
             /\ Len(fetches') = Len(fetches) + 1
             /\ upload'.messages =
                  Append(upload.messages,
                         [role |-> "user", content |-> JsText(upload.messageInput)])
        /\ Cardinality(MessageFetches') < Cardinality(MessageFetches) =>
             /\ Len(upload'.messages) = Len(upload.messages) + 1
             /\ SubSeq(upload'.messages, 1, Len(upload.messages)) = upload.messages
             /\ upload'.messages[Len(upload'.messages)].role = "assistant"]_vars

\* two messages were sent and answered, the second request having failed
C28_Witness ==
  /\ Len(upload.messages) = 5
  /\ upload.messages[2].role = "user" /\ upload.messages[3].role = "assistant"
  /\ upload.messages[4].role = "user" /\ upload.messages[5].role = "assistant"
  /\ upload.handled.kind = "no_response"
  /\ ChatFetches = {} /\ ~upload.chatLoading

\* C30: a result shown on the research page is the response of the search
\* started last, and no search is outstanding then; a search starts only with
\* a non-blank query and none outstanding, it clears result and error and
\* sends one request; a blank query sends none; a failed search leaves the
\* result empty and an error set.
C30_ResultOfLatestSearch ==
  /\ [](Truthy(research.result) =>
          /\ research.result.search = research.searches
          /\ LiveSearches = {})
  /\ [](Cardinality(LiveSearches) <= 1)
  /\ [][/\ research'.searches # research.searches =>
             /\ Trim(research.query) # <<>>
             /\ LiveSearches = {}
             /\ research'.result = JsNull
             /\ research'.error = JsNull
             /\ fetches' = Append(fetches, fetches'[Len(fetches')])
             /\ fetches'[Len(fetches')].live
             /\ fetches'[Len(fetches')].id = research'.searches
             /\ fetches'[Len(fetches')].query = Trim(research.query)
        /\ Len(fetches') > Len(fetches) => research'.searches # research.searches
        /\ Trim(research.query) = <<>> => Len(fetches') <= Len(fetches)
        /\ (/\ research'.handled # research.handled
            /\ research'.handled # JsNull
            /\ research'.handled.outcome.kind = "error") =>
             /\ research'.result = JsNull
             /\ Truthy(research'.error)]_vars

\* the response of a second search is shown, the first search being handled
C30_Witness ==
  /\ Truthy(research.result)
  /\ research.searches = 2
  /\ research.result.search = 2
  /\ research.handled # JsNull
  /\ research.handled.search = 2

====
